---- MODULE Spec2Model ----
(***************************************************************************)
(* CTL formula translation of the MCC property files: the proposition      *)
(* interner, the two tree translators (extractMCC.py: opaque atoms,        *)
(* symbolic dialect; prepare_dataset.py: structural atoms, keyword or      *)
(* symbolic dialect) and the per-document extraction loop.                 *)
(*                                                                         *)
(* An XML element is a record [tag, text, tail, kids]:                     *)
(*   tag  = <<namespace, local name>>                                      *)
(*   text = <<>> for Python's None, <<s>> for the text s                   *)
(*   tail = the text that follows the element's end tag ("" when none)     *)
(*   kids = the sequence of child elements                                 *)
(* Python strings are TLA+ strings, concatenated with \o.                  *)
(***************************************************************************)
EXTENDS Integers, Sequences, FiniteSets, TLC

VARIABLES
    impl,              \* which CTLParser runs: "mcc" (extractMCC.py), "pd_lola"
                       \* or "pd_plain" (prepare_dataset.py, lola_compatible or not)
    propositions_map,  \* self.propositions_map: canonical key -> symbol
    prop_counter,      \* self.prop_counter
    node,              \* the element given to translate_formula_node / _get_prop_id
    outcome,           \* what the last translate_formula_node call did (or the
                       \* ParseError that ET.parse raised)
    calls,             \* the _get_prop_id calls of the session: <<key, symbol>> each
    doc,               \* the property entries of the parsed document, in order
    idx,               \* the loop position in extract_properties_from_file
    extracted_props,   \* the dict being built, in insertion order
    pc,                \* where the running operation is
    tree,              \* the property elements of the parsed document, in document
                       \* order, each with its place in the tree
    input_files,       \* the files the batch driver walks through, in order
    file_idx,          \* extractMCC.py main: the position in input_files
    all_properties,    \* extractMCC.py main: the dict all_properties, in order
    output_files,      \* the files written so far: output path -> lines
    tasks,             \* prepare_dataset.py: the process_file task of each file
    stdin,             \* the lines left on the console that input() reads
    analysis,          \* iterative_analysis_manual.py: the locals of run_tests
    monitor            \* run_lola_benchmark.py: the subprocess, its pipe and the
                       \* locals of test_one_model

batch_vars == <<input_files, file_idx, all_properties, output_files, tasks, stdin>>

script_vars == <<analysis, monitor>>

\* The variables of the batch drivers and of the scripts.
driver_vars == <<tree, batch_vars, script_vars>>

vars == <<impl, propositions_map, prop_counter,
          node, outcome, calls, doc, idx, extracted_props, pc, driver_vars>>

\* No batch driver and no script runs: their variables are idle.
NoBatch ==
    /\ input_files = <<>>
    /\ file_idx = 0
    /\ all_properties = <<>>
    /\ output_files = <<>>
    /\ tasks = <<>>
    /\ stdin = 0

NoScript == analysis = <<>> /\ monitor = <<>>

NoDriver == tree = <<>> /\ NoBatch /\ NoScript

\* ------------------------------------------------------------------ bounds
\* Longest sequence of _get_prop_id calls of one interner session.
MaxCalls == 4
\* Most children of a conjunction/disjunction (and of the other nodes built).
MaxArity == 2
\* Most property entries of a document.
MaxProps == 3
\* Most input files of a batch run.
MaxFiles == 2
\* Most files given to the worker threads.
MaxTasks == 2
\* Most lines the console holds before its end.
MaxStdin == 2
\* Most lines of a file of other properties.
MaxOther == 2
\* Most lines the tool prints before the report of /usr/bin/time.
MaxToolLines == 2

\* ------------------------------------------------------------ XML elements
MCC_NAMESPACE == "http://mcc.lip6.fr/"

_tag(tag_name) == <<MCC_NAMESPACE, tag_name>>

\* An element outside the MCC namespace.
ForeignTag == <<"", "foreign">>

Elem(name, kids) == [tag |-> _tag(name), text |-> <<>>, tail |-> "", kids |-> kids]

Leaf(name, text) == [tag |-> _tag(name), text |-> <<text>>, tail |-> "", kids |-> <<>>]

WithTail(n, tail) == [n EXCEPT !.tail = tail]

\* The tag as Python prints it: "{namespace}local", or "local" without one.
TagStr(tag) == IF tag[1] = "" THEN tag[2] ELSE "{" \o tag[1] \o "}" \o tag[2]

\* The qualified name ElementTree writes: prefix ns0 for the MCC namespace.
QName(tag) == IF tag[1] = "" THEN tag[2] ELSE "ns0:" \o tag[2]

RECURSIVE SerializeKids(_, _)
RECURSIVE SerializeElem(_, _)
\* ElementTree's serialization of an element: start tag (with the namespace
\* declaration on the element tostring() was called on), text, children, end
\* tag, and the element's tail; an element with neither text nor children is
\* written short.
SerializeElem(n, root) ==
    LET decl == IF root /\ n.tag[1] # ""
                THEN " xmlns:ns0=\"" \o n.tag[1] \o "\"" ELSE ""
    IN IF n.text = <<>> /\ n.kids = <<>>
       THEN "<" \o QName(n.tag) \o decl \o " />" \o n.tail
       ELSE "<" \o QName(n.tag) \o decl \o ">"
            \o (IF n.text = <<>> THEN "" ELSE n.text[1])
            \o SerializeKids(n.kids, 1)
            \o "</" \o QName(n.tag) \o ">" \o n.tail

SerializeKids(kids, i) ==
    IF i > Len(kids) THEN ""
    ELSE SerializeElem(kids[i], FALSE) \o SerializeKids(kids, i + 1)

\* ET.tostring(node).decode('utf-8')
tostring(n) == SerializeElem(n, TRUE)

\* node.find("{ns}*"): the first child element in the MCC namespace, or None
\* (<<>>); <<child>> when found.
RECURSIVE FindFrom(_, _)
FindFrom(kids, i) ==
    IF i > Len(kids) THEN <<>>
    ELSE IF kids[i].tag[1] = MCC_NAMESPACE THEN <<kids[i]>>
    ELSE FindFrom(kids, i + 1)

find_any(n) == FindFrom(n.kids, 1)

\* ------------------------------------------------------------- the interner
\* Mutant: the numbering starts at 1.
new_id_from_one(counter) == "p" \o ToString(counter + 1)

\* f"p{self.prop_counter}"
new_id(counter) == "p" \o ToString(counter)

\* Mutant: the counter is not advanced after an insertion.
_get_prop_id_stuck(n, pm, counter) ==
    LET canonical_key == tostring(n)
    IN IF canonical_key \notin DOMAIN pm
       THEN [sym |-> new_id(counter),
             pm |-> pm @@ (canonical_key :> new_id(counter)),
             counter |-> counter]
       ELSE [sym |-> pm[canonical_key], pm |-> pm, counter |-> counter]

\* Mutant: an insertion drops the entries the table held.
_get_prop_id_forgetful(n, pm, counter) ==
    LET canonical_key == tostring(n)
    IN IF canonical_key \notin DOMAIN pm
       THEN [sym |-> new_id(counter),
             pm |-> (canonical_key :> new_id(counter)),
             counter |-> counter + 1]
       ELSE [sym |-> pm[canonical_key], pm |-> pm, counter |-> counter]

\* Mutant: the table is not consulted, every call allocates a symbol.
_get_prop_id_always_new(n, pm, counter) ==
    LET canonical_key == tostring(n)
    IN [sym |-> new_id(counter),
        pm |-> (canonical_key :> new_id(counter)) @@ pm,
        counter |-> counter + 1]

\* The interner state after _get_prop_id(node) and the symbol it returns.
_get_prop_id(n, pm, counter) ==
    LET canonical_key == tostring(n)
    IN IF canonical_key \notin DOMAIN pm
       THEN [sym |-> new_id(counter),
             pm |-> pm @@ (canonical_key :> new_id(counter)),
             counter |-> counter + 1]
       ELSE [sym |-> pm[canonical_key], pm |-> pm, counter |-> counter]

EmptyMap == [k \in {} |-> ""]

\* ----------------------------------------------- extractMCC.py: translator
\* sep.join(parts)
RECURSIVE JoinFrom(_, _, _)
JoinFrom(parts, sep, i) ==
    IF i > Len(parts) THEN ""
    ELSE IF i = Len(parts) THEN parts[i]
    ELSE parts[i] \o sep \o JoinFrom(parts, sep, i + 1)

join(sep, parts) == JoinFrom(parts, sep, 1)

\* A call's result: kind "ok" with the returned string val, or the exception
\* raised (val its message); pm and counter are the interner afterwards.
Ret(val, pm, counter) == [kind |-> "ok", val |-> val, pm |-> pm, counter |-> counter]

Raise(kind, val, pm, counter) == [kind |-> kind, val |-> val, pm |-> pm, counter |-> counter]

\* The tags handed to the interner (the base case of the dispatch).
AtomicTags == {_tag("integer-le"), _tag("is-fireable"), _tag("tokens-count")}

PathQuantifierTags == {_tag("all-paths"), _tag("exists-path")}

quantifier_of(tag) == IF tag = _tag("all-paths") THEN "A" ELSE "E"

render_conjunction(parts) == "(" \o join(" & ", parts) \o ")"

render_disjunction(parts) == "(" \o join(" | ", parts) \o ")"

render_negation(s) == "!(" \o s \o ")"

render_globally(quantifier, s) == quantifier \o "G (" \o s \o ")"

render_finally(quantifier, s) == quantifier \o "F (" \o s \o ")"

render_next(quantifier, s) == quantifier \o "(false W (" \o s \o "))"

\* Mutant: the operands of until are exchanged.
render_until_swapped(quantifier, before_expr, reach_expr) ==
    quantifier \o "(" \o reach_expr \o " U " \o before_expr \o ")"

render_until(quantifier, before_expr, reach_expr) ==
    quantifier \o "(" \o before_expr \o " U " \o reach_expr \o ")"

unknown_tag_message(tag) == "Unknown or unhandled XML tag: " \o TagStr(tag)

RECURSIVE translate_formula_node(_, _, _)
RECURSIVE translate_children(_, _, _, _, _)
RECURSIVE translate_optional(_, _, _)

\* The generator (self.translate_formula_node(c) for c in children) consumed by
\* join: the children in order, stopping at the first that raises; val is the
\* sequence of the strings.
translate_children(children, i, acc, pm, counter) ==
    IF i > Len(children) THEN Ret(acc, pm, counter)
    ELSE LET r == translate_formula_node(children[i], pm, counter)
         IN IF r.kind # "ok" THEN r
            ELSE translate_children(children, i + 1, Append(acc, r.val), r.pm, r.counter)

\* translate_formula_node(x.find("{ns}*")): find gives None when no child is in
\* the namespace, and None.tag raises AttributeError.
translate_optional(found, pm, counter) ==
    IF found = <<>>
    THEN Raise("AttributeError", "'NoneType' object has no attribute 'tag'", pm, counter)
    ELSE translate_formula_node(found[1], pm, counter)

\* The path-quantifier branch once op_node = children[0] is known to exist;
\* kind "fallthrough" when op_tag is none of the four operators.
translate_quantified(n, pm, counter) ==
    LET quantifier == quantifier_of(n.tag)
        op_node == n.kids[1]
        op_tag == op_node.tag
        op_children == op_node.kids
        IndexErr == Raise("IndexError", "list index out of range", pm, counter)
    IN IF op_tag = _tag("globally")
       THEN IF op_children = <<>> THEN IndexErr
            ELSE LET r == translate_formula_node(op_children[1], pm, counter)
                 IN IF r.kind # "ok" THEN r
                    ELSE Ret(render_globally(quantifier, r.val), r.pm, r.counter)
       ELSE IF op_tag = _tag("finally")
       THEN IF op_children = <<>> THEN IndexErr
            ELSE LET r == translate_formula_node(op_children[1], pm, counter)
                 IN IF r.kind # "ok" THEN r
                    ELSE Ret(render_finally(quantifier, r.val), r.pm, r.counter)
       ELSE IF op_tag = _tag("next")
       THEN IF op_children = <<>> THEN IndexErr
            ELSE LET r == translate_formula_node(op_children[1], pm, counter)
                 IN IF r.kind # "ok" THEN r
                    ELSE Ret(render_next(quantifier, r.val), r.pm, r.counter)
       ELSE IF op_tag = _tag("until")
       THEN IF op_children = <<>> THEN IndexErr
            ELSE LET b == translate_optional(find_any(op_children[1]), pm, counter)
                 IN IF b.kind # "ok" THEN b
                    ELSE IF Len(op_children) < 2
                    THEN Raise("IndexError", "list index out of range", b.pm, b.counter)
                    ELSE LET r == translate_optional(find_any(op_children[2]), b.pm, b.counter)
                         IN IF r.kind # "ok" THEN r
                            ELSE Ret(render_until(quantifier, b.val, r.val), r.pm, r.counter)
       ELSE Raise("fallthrough", "", pm, counter)

\* Mutant: the wrapper rule descends into the last child.
translate_base_last(n, pm, counter) ==
    IF n.tag \in AtomicTags
    THEN LET g == _get_prop_id(n, pm, counter) IN Ret(g.sym, g.pm, g.counter)
    ELSE IF n.kids # <<>>
    THEN translate_formula_node(n.kids[Len(n.kids)], pm, counter)
    ELSE Raise("ValueError", unknown_tag_message(n.tag), pm, counter)

\* The tail of the dispatch: the atomic base case, the wrapper rule, the error.
translate_base(n, pm, counter) ==
    IF n.tag \in AtomicTags
    THEN LET g == _get_prop_id(n, pm, counter) IN Ret(g.sym, g.pm, g.counter)
    ELSE IF n.kids # <<>>
    THEN translate_formula_node(n.kids[1], pm, counter)
    ELSE Raise("ValueError", unknown_tag_message(n.tag), pm, counter)

translate_formula_node(n, pm, counter) ==
    LET tag == n.tag
        children == n.kids
    IN IF tag = _tag("conjunction")
       THEN LET r == translate_children(children, 1, <<>>, pm, counter)
            IN IF r.kind # "ok" THEN r
               ELSE Ret(render_conjunction(r.val), r.pm, r.counter)
       ELSE IF tag = _tag("disjunction")
       THEN LET r == translate_children(children, 1, <<>>, pm, counter)
            IN IF r.kind # "ok" THEN r
               ELSE Ret(render_disjunction(r.val), r.pm, r.counter)
       ELSE IF tag = _tag("negation")
       THEN IF children = <<>>
            THEN Raise("IndexError", "list index out of range", pm, counter)
            ELSE LET r == translate_formula_node(children[1], pm, counter)
                 IN IF r.kind # "ok" THEN r
                    ELSE Ret(render_negation(r.val), r.pm, r.counter)
       ELSE IF tag \in PathQuantifierTags
       THEN IF children = <<>>
            THEN Raise("IndexError", "list index out of range", pm, counter)
            ELSE LET q == translate_quantified(n, pm, counter)
                 IN IF q.kind = "fallthrough" THEN translate_base(n, pm, counter)
                    ELSE q
       ELSE translate_base(n, pm, counter)

\* ------------------------------------------- prepare_dataset.py: translator
\* The token spellings CTLParser.__init__ sets for lola_compatible or not.
Dialect(lola_compatible) ==
    IF lola_compatible
    THEN [AND |-> "AND", OR |-> "OR", NOT |-> "NOT", ALLPATH |-> "A", EXPATH |-> "E",
          G |-> "G", F |-> "F", U |-> "U", W |-> "W", X |-> "X",
          end |-> ":", false |-> "FALSE", true |-> "TRUE"]
    ELSE [AND |-> "&", OR |-> "|", NOT |-> "!", ALLPATH |-> "A", EXPATH |-> "E",
          G |-> "G", F |-> "F", U |-> "U", W |-> "W", X |-> "",
          end |-> "", false |-> "false", true |-> "true"]

\* A call's result: kind "ok" with the returned value (none: it is None, else
\* the string val), or the exception raised; waited: input("wait") was called.
PdRet(val) == [kind |-> "ok", val |-> val, none |-> FALSE, waited |-> FALSE]

PdNone == [kind |-> "ok", val |-> "", none |-> TRUE, waited |-> FALSE]

PdRaise(kind, val) == [kind |-> kind, val |-> val, none |-> FALSE, waited |-> FALSE]

PdIndexError == PdRaise("IndexError", "list index out of range")

\* How an f-string renders a returned value: str(None) is "None".
Fmt(r) == IF r.none THEN "None" ELSE r.val

pd_quantifier_of(d, tag) == IF tag = _tag("all-paths") THEN d.ALLPATH ELSE d.EXPATH

pd_render_conjunction(d, parts) == "(" \o join(" " \o d.AND \o " ", parts) \o ")"

\* Mutant: the disjunction is written with the symbolic token whatever the
\* dialect.
pd_render_disjunction_symbolic(d, parts) == "(" \o join(" | ", parts) \o ")"

pd_render_disjunction(d, parts) == "(" \o join(" " \o d.OR \o " ", parts) \o ")"

pd_render_negation(d, s) == d.NOT \o "(" \o s \o ")"

pd_render_globally(d, quantifier, s) == quantifier \o d.G \o " (" \o s \o ")"

pd_render_finally(d, quantifier, s) == quantifier \o d.F \o " (" \o s \o ")"

\* Mutant: the weak-until rewrite is emitted whatever the dialect.
pd_render_next_rewrite(d, lola_compatible, quantifier, s) ==
    quantifier \o "(" \o d.false \o " " \o d.W \o " (" \o s \o "))"

pd_render_next(d, lola_compatible, quantifier, s) ==
    IF ~lola_compatible
    THEN quantifier \o "(" \o d.false \o " " \o d.W \o " (" \o s \o "))"
    ELSE quantifier \o d.X \o " (" \o s \o ")"

pd_render_until(d, quantifier, before_expr, reach_expr) ==
    quantifier \o "(" \o before_expr \o " " \o d.U \o " " \o reach_expr \o ")"

pd_render_le(before, after) == "(" \o before \o " <= " \o after \o ")"

\* Mutant: equality is written with a doubled sign.
pd_render_eq_double(before, after) == "(" \o before \o " == " \o after \o ")"

pd_render_eq(before, after) == "(" \o before \o " = " \o after \o ")"

\* Mutant: the unknown leaf is rendered as the line the console gives (the
\* empty string at end of file).
pd_unknown_leaf_echo(tag, eof) ==
    [kind |-> "ok", val |-> IF eof THEN "" ELSE "wait", none |-> FALSE, waited |-> TRUE]

\* input("wait") then raise ValueError: with the console at end of file input()
\* raises EOFError itself; otherwise the call waits for a line first.
pd_unknown_leaf(tag, eof) ==
    IF eof
    THEN [kind |-> "EOFError", val |-> "EOF when reading a line",
          none |-> FALSE, waited |-> TRUE]
    ELSE [kind |-> "ValueError", val |-> unknown_tag_message(tag),
          none |-> FALSE, waited |-> TRUE]

RECURSIVE pd_translate_formula_node(_, _, _)
RECURSIVE pd_translate_children(_, _, _, _, _)
RECURSIVE pd_translate_optional(_, _, _)

\* join over the generator: every child is translated, in order, before the
\* strings are joined; val is the sequence of results.
pd_translate_children(children, i, acc, lola, eof) ==
    IF i > Len(children) THEN PdRet(acc)
    ELSE LET r == pd_translate_formula_node(children[i], lola, eof)
         IN IF r.kind # "ok" THEN r
            ELSE pd_translate_children(children, i + 1, Append(acc, r), lola, eof)

pd_translate_optional(found, lola, eof) ==
    IF found = <<>>
    THEN PdRaise("AttributeError", "'NoneType' object has no attribute 'tag'")
    ELSE pd_translate_formula_node(found[1], lola, eof)

\* str.join on the children's results: a None among them is a TypeError.
\* how: "conjunction" or "disjunction".
pd_join_results(rs, how, lola) ==
    LET parts == [i \in 1..Len(rs) |-> rs[i].val]
    IN IF \E i \in 1..Len(rs) : rs[i].none
       THEN PdRaise("TypeError", "sequence item: expected str instance, NoneType found")
       ELSE IF how = "conjunction" THEN PdRet(pd_render_conjunction(Dialect(lola), parts))
       ELSE PdRet(pd_render_disjunction(Dialect(lola), parts))

\* The f-string around the translation s of children[0], for the branch `how`.
pd_render_unary(how, lola, quantifier, s) ==
    CASE how = "negation" -> pd_render_negation(Dialect(lola), s)
      [] how = "globally" -> pd_render_globally(Dialect(lola), quantifier, s)
      [] how = "finally" -> pd_render_finally(Dialect(lola), quantifier, s)
      [] how = "next" -> pd_render_next(Dialect(lola), lola, quantifier, s)
      [] OTHER -> s

\* f"...{translate(children[0])}..." of the branch `how`, on the children kids.
pd_unary(kids, lola, eof, how, quantifier) ==
    IF kids = <<>> THEN PdIndexError
    ELSE LET r == pd_translate_formula_node(kids[1], lola, eof)
         IN IF r.kind # "ok" THEN r
            ELSE PdRet(pd_render_unary(how, lola, quantifier, Fmt(r)))

\* before = translate(children[0]); after = translate(children[1]); how: "le"
\* or "eq".
pd_binary(kids, lola, eof, how) ==
    IF kids = <<>> THEN PdIndexError
    ELSE LET b == pd_translate_formula_node(kids[1], lola, eof)
         IN IF b.kind # "ok" THEN b
            ELSE IF Len(kids) < 2 THEN PdIndexError
            ELSE LET a == pd_translate_formula_node(kids[2], lola, eof)
                 IN IF a.kind # "ok" THEN a
                    ELSE IF how = "le" THEN PdRet(pd_render_le(Fmt(b), Fmt(a)))
                    ELSE PdRet(pd_render_eq(Fmt(b), Fmt(a)))

pd_translate_quantified(n, lola, eof) ==
    LET d == Dialect(lola)
        quantifier == pd_quantifier_of(d, n.tag)
        op_node == n.kids[1]
        op_tag == op_node.tag
        op_children == op_node.kids
    IN IF op_tag = _tag("globally")
       THEN pd_unary(op_children, lola, eof, "globally", quantifier)
       ELSE IF op_tag = _tag("finally")
       THEN pd_unary(op_children, lola, eof, "finally", quantifier)
       ELSE IF op_tag = _tag("next")
       THEN pd_unary(op_children, lola, eof, "next", quantifier)
       ELSE IF op_tag = _tag("until")
       THEN IF op_children = <<>> THEN PdIndexError
            ELSE LET b == pd_translate_optional(find_any(op_children[1]), lola, eof)
                 IN IF b.kind # "ok" THEN b
                    ELSE IF Len(op_children) < 2 THEN PdIndexError
                    ELSE LET r == pd_translate_optional(find_any(op_children[2]), lola, eof)
                         IN IF r.kind # "ok" THEN r
                            ELSE PdRet(pd_render_until(d, quantifier, Fmt(b), Fmt(r)))
       ELSE PdRaise("fallthrough", "")

\* The structural atoms, the wrapper rule and the error.
pd_translate_base(n, lola, eof) ==
    LET tag == n.tag
        children == n.kids
    IN IF tag = _tag("integer-le") THEN pd_binary(children, lola, eof, "le")
       ELSE IF tag = _tag("integer-eq") THEN pd_binary(children, lola, eof, "eq")
       ELSE IF tag \in {_tag("place"), _tag("integer-constant")}
       THEN (IF n.text = <<>> THEN PdNone ELSE PdRet(n.text[1]))
       ELSE IF tag = _tag("tokens-count") THEN pd_unary(children, lola, eof, "tokens-count", "")
       ELSE IF tag = _tag("is-fireable") THEN pd_unary(children, lola, eof, "is-fireable", "")
       ELSE IF children # <<>> THEN pd_translate_formula_node(children[1], lola, eof)
       ELSE pd_unknown_leaf(tag, eof)

pd_translate_formula_node(n, lola, eof) ==
    LET tag == n.tag
        children == n.kids
    IN IF tag = _tag("conjunction")
       THEN LET r == pd_translate_children(children, 1, <<>>, lola, eof)
            IN IF r.kind # "ok" THEN r ELSE pd_join_results(r.val, "conjunction", lola)
       ELSE IF tag = _tag("disjunction")
       THEN LET r == pd_translate_children(children, 1, <<>>, lola, eof)
            IN IF r.kind # "ok" THEN r ELSE pd_join_results(r.val, "disjunction", lola)
       ELSE IF tag = _tag("negation") THEN pd_unary(children, lola, eof, "negation", "")
       ELSE IF tag \in PathQuantifierTags
       THEN IF children = <<>> THEN PdIndexError
            ELSE LET q == pd_translate_quantified(n, lola, eof)
                 IN IF q.kind = "fallthrough" THEN pd_translate_base(n, lola, eof)
                    ELSE q
       ELSE pd_translate_base(n, lola, eof)

\* ------------------------------------------------------ the inputs explored
SeqsUpTo(S, n) == UNION {[1..k -> S] : k \in 0..n}

\* Atomic subtrees and leaves.
T1 == Elem("is-fireable", <<Leaf("transition", "t1")>>)

T2 == Elem("is-fireable", <<Leaf("transition", "t2")>>)

\* T1 again, followed by white space in the document.
T1Tail == WithTail(T1, " ")

Count == Elem("tokens-count", <<Leaf("place", "a")>>)

Le == Elem("integer-le", <<Count, Leaf("integer-constant", "1")>>)

Eq == Elem("integer-eq", <<Count, Leaf("integer-constant", "1")>>)

PlaceA == Leaf("place", "a")

Const1 == Leaf("integer-constant", "1")

\* <place/>: no text.
Place0 == Elem("place", <<>>)

Bogus == Elem("bogus", <<>>)

Foreign == [tag |-> ForeignTag, text |-> <<>>, tail |-> "", kids |-> <<>>]

Operands == {T1, T2, T1Tail, Count, Le, Eq, PlaceA, Const1, Place0, Bogus, Foreign}

\* The operands nested under temporal operators and wrappers.
FewOperands == {T1, T2, Le, Bogus}

Wrappers(S) ==
    {Elem(w, k) : w \in {"before", "reach"}, k \in SeqsUpTo(S, 1)}
    \cup {Elem("before", <<Foreign, x>>) : x \in S}

\* The nodes one level above the operands S (F: the smaller operand set).
Level(S, F) ==
    {Elem(c, k) : c \in {"conjunction", "disjunction"}, k \in SeqsUpTo(S, MaxArity)}
    \cup {Elem(c, k) : c \in {"negation", "formula"}, k \in SeqsUpTo(F, MaxArity)}
    \cup {Elem(q, k) : q \in {"all-paths", "exists-path"},
                       k \in SeqsUpTo(
                              {Elem(o, j) : o \in {"globally", "finally", "next"},
                                            j \in SeqsUpTo(F, 1)}
                              \cup {Elem("until", j) : j \in SeqsUpTo(Wrappers(F), 2)}
                              \cup {Elem("conjunction", <<x>>) : x \in F}
                              \cup F, 1)}

Level1 == Level(Operands, FewOperands)

\* Compound formulas nested once more.
Nested ==
    {Elem("negation", <<T1>>),
     Elem("all-paths", <<Elem("globally", <<Le>>)>>),
     Elem("exists-path", <<Elem("next", <<T1>>)>>),
     Elem("all-paths", <<Elem("until", <<Elem("before", <<T1>>), Elem("reach", <<T2>>)>>)>>),
     Elem("conjunction", <<T2, T1>>),
     Elem("disjunction", <<Le, T1>>),
     Elem("formula", <<Bogus>>)}

Level2 == Level(Nested \cup {T2}, Nested)

Trees == Operands \cup Level1 \cup Level2

\* The formulas of the documents explored: one that raises ValueError after
\* interning T2, and a negation without child.
ConjErr == Elem("conjunction", <<T2, Bogus>>)

Neg0 == Elem("negation", <<>>)

Formulas == {Elem("formula", <<f>>) : f \in {Le, T1, ConjErr, Neg0}}

\* A <property>: its <id> text (<<>>: no <id>) and its <formula> (<<>>: none).
Entries == [id : {<<>>, <<"a">>, <<"b">>}, formula : {<<>>} \cup {<<f>> : f \in Formulas}]

Docs == SeqsUpTo(Entries, MaxProps)

Impls == {"mcc", "pd_lola", "pd_plain"}

NoNode == Elem("none", <<>>)

NoOutcome == [kind |-> "none", val |-> "", none |-> FALSE, waited |-> FALSE]

\* What an extractMCC translate call did, without the interner state.
Outcome(r) == [kind |-> r.kind, val |-> r.val, none |-> FALSE, waited |-> FALSE]

\* ---------------------------------------------------- interner session
InitI ==
    /\ impl = "mcc"
    /\ NoDriver
    /\ propositions_map = EmptyMap
    /\ prop_counter = 0
    /\ node = NoNode
    /\ outcome = NoOutcome
    /\ calls = <<>>
    /\ doc = <<>>
    /\ idx = 0
    /\ extracted_props = <<>>
    /\ pc = "session"

\* One call of _get_prop_id on an atomic subtree.
GetPropId ==
    /\ pc = "session"
    /\ Len(calls) < MaxCalls
    /\ \E a \in Operands :
          LET g == _get_prop_id(a, propositions_map, prop_counter)
          IN /\ node' = a
             /\ propositions_map' = g.pm
             /\ prop_counter' = g.counter
             /\ calls' = Append(calls, [key |-> tostring(a), sym |-> g.sym])
    /\ UNCHANGED <<driver_vars, impl, outcome, doc, idx, extracted_props, pc>>

NextI == GetPropId

SpecI == InitI /\ [][NextI]_vars

\* ------------------------------- a session of intern and translate calls
\* The atomic subtrees and the formulas one parser is called on in a session
\* of any length (the calls are not logged).
SessionAtoms == {T1, T2, T1Tail, Le}

SessionTrees ==
    {Elem("conjunction", <<T2, T1>>), Elem("negation", <<Count>>),
     Elem("all-paths", <<Elem("globally", <<Le>>)>>), ConjErr, Neg0}

InitS ==
    /\ impl = "mcc"
    /\ NoDriver
    /\ propositions_map = EmptyMap
    /\ prop_counter = 0
    /\ node = NoNode
    /\ outcome = NoOutcome
    /\ calls = <<>>
    /\ doc = <<>>
    /\ idx = 0
    /\ extracted_props = <<>>
    /\ pc = "parser"

\* One call of _get_prop_id on the session's parser.
SessionIntern ==
    /\ pc = "parser"
    /\ \E a \in SessionAtoms :
          LET g == _get_prop_id(a, propositions_map, prop_counter)
          IN /\ node' = a
             /\ outcome' = NoOutcome
             /\ propositions_map' = g.pm
             /\ prop_counter' = g.counter
    /\ UNCHANGED <<driver_vars, impl, calls, doc, idx, extracted_props, pc>>

\* One call of translate_formula_node on the session's parser.
SessionTranslate ==
    /\ pc = "parser"
    /\ \E t \in SessionTrees :
          LET r == translate_formula_node(t, propositions_map, prop_counter)
          IN /\ node' = t
             /\ outcome' = Outcome(r)
             /\ propositions_map' = r.pm
             /\ prop_counter' = r.counter
    /\ UNCHANGED <<driver_vars, impl, calls, doc, idx, extracted_props, pc>>

NextS == SessionIntern \/ SessionTranslate

SpecS == InitS /\ [][NextS]_vars

\* ------------------------------------------- one translate_formula_node call
InitT ==
    /\ impl \in Impls
    /\ NoDriver
    /\ propositions_map = EmptyMap
    /\ prop_counter = 0
    /\ node \in Trees
    /\ outcome = NoOutcome
    /\ calls = <<>>
    /\ doc = <<>>
    /\ idx = 0
    /\ extracted_props = <<>>
    /\ pc = "call"

\* extractMCC.py: CTLParser().translate_formula_node(node)
Translate ==
    /\ pc = "call"
    /\ impl = "mcc"
    /\ LET r == translate_formula_node(node, propositions_map, prop_counter)
       IN /\ outcome' = Outcome(r)
          /\ propositions_map' = r.pm
          /\ prop_counter' = r.counter
    /\ pc' = "done"
    /\ UNCHANGED <<driver_vars, impl, node, calls, doc, idx, extracted_props>>

\* prepare_dataset.py: CTLParser(lola_compatible).translate_formula_node(node);
\* the console is at end of file or not.
PdTranslate ==
    /\ pc = "call"
    /\ impl \in {"pd_lola", "pd_plain"}
    /\ \E eof \in BOOLEAN :
          outcome' = pd_translate_formula_node(node, impl = "pd_lola", eof)
    /\ pc' = "done"
    /\ UNCHANGED <<driver_vars, impl, propositions_map, prop_counter, node, calls, doc, idx,
                   extracted_props>>

NextT == Translate \/ PdTranslate

SpecT == InitT /\ [][NextT]_vars

\* ------------------------------------- the same tree translated once more
\* extractMCC.py: a new CTLParser() translates the tree of the finished call.
TranslateAgain ==
    /\ pc = "done"
    /\ impl = "mcc"
    /\ LET r == translate_formula_node(node, EmptyMap, 0)
       IN /\ outcome' = Outcome(r)
          /\ propositions_map' = r.pm
          /\ prop_counter' = r.counter
    /\ pc' = "again"
    /\ UNCHANGED <<driver_vars, impl, node, calls, doc, idx, extracted_props>>

\* prepare_dataset.py: a new CTLParser(lola_compatible), of the same dialect,
\* translates the tree of the finished call; the console is at end of file or not.
PdTranslateAgain ==
    /\ pc = "done"
    /\ impl \in {"pd_lola", "pd_plain"}
    /\ \E eof \in BOOLEAN :
          outcome' = pd_translate_formula_node(node, impl = "pd_lola", eof)
    /\ propositions_map' = EmptyMap
    /\ prop_counter' = 0
    /\ pc' = "again"
    /\ UNCHANGED <<driver_vars, impl, node, calls, doc, idx, extracted_props>>

NextD == Translate \/ PdTranslate \/ TranslateAgain \/ PdTranslateAgain

SpecD == InitT /\ [][NextD]_vars

\* ------------------------------------------ extract_properties_from_file
\* root.findall(...): the <property> elements the loop goes through.
prop_nodes(d) == d

\* extracted_props[prop_id] = value: a key already present keeps its position.
\* An item also records the entry (position in prop_nodes) its value came from.
DictSet(d, item) ==
    IF \E i \in 1..Len(d) : d[i].id = item.id
    THEN [i \in 1..Len(d) |-> IF d[i].id = item.id THEN item ELSE d[i]]
    ELSE Append(d, item)

Init ==
    /\ impl \in Impls
    /\ NoDriver
    /\ propositions_map = EmptyMap
    /\ prop_counter = 0
    /\ node = NoNode
    /\ outcome = NoOutcome
    /\ calls = <<>>
    /\ doc \in Docs
    /\ idx = 1
    /\ extracted_props = <<>>
    /\ pc = "loop"

InLoop == pc = "loop" /\ idx <= Len(prop_nodes(doc))

WellFormed(e) == e.id # <<>> /\ e.formula # <<>>

\* Mutant: an entry without <id> or <formula> makes the function raise.
SkipEntryRaises ==
    /\ InLoop
    /\ ~WellFormed(prop_nodes(doc)[idx])
    /\ pc' = "raised"
    /\ UNCHANGED <<driver_vars, impl, propositions_map, prop_counter, node, outcome, calls, doc,
                   idx, extracted_props>>

\* An entry without <id> or without <formula>: the loop body does nothing.
SkipEntry ==
    /\ InLoop
    /\ ~WellFormed(prop_nodes(doc)[idx])
    /\ idx' = idx + 1
    /\ UNCHANGED <<driver_vars, impl, propositions_map, prop_counter, node, outcome, calls, doc,
                   extracted_props, pc>>

\* The loop body on entry i, which has id and formula: the state it leaves.
\* extractMCC.py: ValueError is caught, any other exception leaves the function.
\* prepare_dataset.py: the same, and the terminator is appended unless the entry
\* is the last of prop_nodes; None + self.end raises TypeError.
extract_entry(im, eof, d, i, ex, pm, counter) ==
    LET e == prop_nodes(d)[i]
    IN IF im = "mcc"
       THEN LET r == translate_formula_node(e.formula[1], pm, counter)
                goes_on == r.kind \in {"ok", "ValueError"}
            IN [outcome |-> Outcome(r), pm |-> r.pm, counter |-> r.counter,
                extracted |->
                    IF r.kind = "ok"
                    THEN DictSet(ex, [id |-> e.id[1], val |-> r.val, none |-> FALSE,
                                      entry |-> i])
                    ELSE ex,
                idx |-> IF goes_on THEN i + 1 ELSE i,
                pc |-> IF goes_on THEN "loop" ELSE "raised"]
       ELSE LET r == pd_translate_formula_node(e.formula[1], im = "pd_lola", eof)
                end == Dialect(im = "pd_lola").end
                more == i < Len(prop_nodes(d))
                stored == r.kind = "ok" /\ ~(more /\ r.none)
                goes_on == stored \/ r.kind = "ValueError"
            IN [outcome |-> r, pm |-> pm, counter |-> counter,
                extracted |->
                    IF stored
                    THEN DictSet(ex, [id |-> e.id[1],
                                      val |-> IF more THEN r.val \o end ELSE r.val,
                                      none |-> r.none, entry |-> i])
                    ELSE ex,
                idx |-> IF goes_on THEN i + 1 ELSE i,
                pc |-> IF goes_on THEN "loop" ELSE "raised"]

\* extractMCC.py: one loop iteration on an entry with id and formula.
ExtractEntry ==
    /\ InLoop
    /\ impl = "mcc"
    /\ WellFormed(prop_nodes(doc)[idx])
    /\ LET s == extract_entry(impl, FALSE, doc, idx, extracted_props,
                              propositions_map, prop_counter)
       IN /\ node' = prop_nodes(doc)[idx].formula[1]
          /\ outcome' = s.outcome
          /\ propositions_map' = s.pm
          /\ prop_counter' = s.counter
          /\ extracted_props' = s.extracted
          /\ idx' = s.idx
          /\ pc' = s.pc
    /\ UNCHANGED <<driver_vars, impl, calls, doc>>

\* prepare_dataset.py: one loop iteration on an entry with id and formula; the
\* console is at end of file or not.
PdExtractEntry ==
    /\ InLoop
    /\ impl \in {"pd_lola", "pd_plain"}
    /\ WellFormed(prop_nodes(doc)[idx])
    /\ \E eof \in BOOLEAN :
          LET s == extract_entry(impl, eof, doc, idx, extracted_props,
                                 propositions_map, prop_counter)
          IN /\ node' = prop_nodes(doc)[idx].formula[1]
             /\ outcome' = s.outcome
             /\ extracted_props' = s.extracted
             /\ idx' = s.idx
             /\ pc' = s.pc
    /\ UNCHANGED <<driver_vars, impl, propositions_map, prop_counter, calls, doc>>

\* The whole loop from entry i on, as a function of the document: the state at
\* the return, or at the exception that leaves the function.
RECURSIVE run_loop(_, _, _, _, _, _, _)
run_loop(im, eof, d, i, ex, pm, counter) ==
    IF i > Len(prop_nodes(d))
    THEN [pc |-> "returned", extracted |-> ex, pm |-> pm, counter |-> counter]
    ELSE IF ~WellFormed(prop_nodes(d)[i])
    THEN run_loop(im, eof, d, i + 1, ex, pm, counter)
    ELSE LET s == extract_entry(im, eof, d, i, ex, pm, counter)
         IN IF s.pc = "raised"
            THEN [pc |-> "raised", extracted |-> s.extracted, pm |-> s.pm,
                  counter |-> s.counter]
            ELSE run_loop(im, eof, d, s.idx, s.extracted, s.pm, s.counter)

\* CTLParser(...).extract_properties_from_file(d)
extract_properties_from_file(im, eof, d) == run_loop(im, eof, d, 1, <<>>, EmptyMap, 0)

\* return extracted_props
Return ==
    /\ pc = "loop"
    /\ idx > Len(prop_nodes(doc))
    /\ pc' = "returned"
    /\ UNCHANGED <<driver_vars, impl, propositions_map, prop_counter, node, outcome, calls, doc,
                   idx, extracted_props>>

Next == SkipEntry \/ ExtractEntry \/ PdExtractEntry \/ Return

Spec == Init /\ [][Next]_vars

\* ------------------------------ extract_properties_from_file, from the file
\* The files given: the well-formed ones, with the property entries ET.parse
\* finds in them, and one that is not well-formed XML.
Files == {[xml |-> TRUE, props |-> d] : d \in Docs} \cup {[xml |-> FALSE, props |-> <<>>]}

InitF ==
    /\ impl \in Impls
    /\ NoDriver
    /\ propositions_map = EmptyMap
    /\ prop_counter = 0
    /\ node = NoNode
    /\ outcome = NoOutcome
    /\ calls = <<>>
    /\ doc = <<>>
    /\ idx = 0
    /\ extracted_props = <<>>
    /\ pc = "parse"

\* tree = ET.parse(file_path); root = tree.getroot(): the file is well-formed.
Parse ==
    /\ pc = "parse"
    /\ \E file \in Files :
          /\ file.xml
          /\ doc' = file.props
    /\ idx' = 1
    /\ pc' = "loop"
    /\ UNCHANGED <<driver_vars, impl, propositions_map, prop_counter, node, outcome, calls,
                   extracted_props>>

\* ET.parse raises ParseError: the handler prints a warning and returns {}.
ParseError ==
    /\ pc = "parse"
    /\ \E file \in Files : ~file.xml
    /\ outcome' = [kind |-> "ParseError", val |-> "", none |-> FALSE, waited |-> FALSE]
    /\ pc' = "returned"
    /\ UNCHANGED <<driver_vars, impl, propositions_map, prop_counter, node, calls, doc, idx,
                   extracted_props>>

NextF == Parse \/ ParseError \/ SkipEntry \/ ExtractEntry \/ PdExtractEntry \/ Return

SpecF == InitF /\ [][NextF]_vars

\* ------------------------- extract_properties_from_file, from the root element
\* A <property> element of the tree: its <id> and <formula> as in Entries, and
\* top: it is a child of the root element (FALSE: it lies deeper in the tree).
TreeEntries ==
    [id : {<<"a">>, <<"b">>},
     formula : {<<>>, <<Elem("formula", <<Le>>)>>, <<Elem("formula", <<T1>>)>>},
     top : BOOLEAN]

\* The property elements of the documents explored, in document order.
PropTrees == SeqsUpTo(TreeEntries, MaxProps)

\* root.findall(".//{ns}property") of extractMCC.py: the property elements at
\* any depth; root.findall("{ns}property") of prepare_dataset.py: the children
\* of the root only. Both in document order.
findall(im, t) == IF im = "mcc" THEN t ELSE SelectSeq(t, LAMBDA e : e.top)

InitN ==
    /\ impl \in Impls
    /\ propositions_map = EmptyMap
    /\ prop_counter = 0
    /\ node = NoNode
    /\ outcome = NoOutcome
    /\ calls = <<>>
    /\ doc = <<>>
    /\ idx = 0
    /\ extracted_props = <<>>
    /\ pc = "findall"
    /\ tree \in PropTrees
    /\ NoBatch
    /\ NoScript

\* prop_nodes = root.findall(...), before the loop.
FindAll ==
    /\ pc = "findall"
    /\ doc' = findall(impl, tree)
    /\ idx' = 1
    /\ pc' = "loop"
    /\ UNCHANGED <<driver_vars, impl, propositions_map, prop_counter, node, outcome,
                   calls, extracted_props>>

NextN == FindAll \/ SkipEntry \/ ExtractEntry \/ PdExtractEntry \/ Return

SpecN == InitN /\ [][NextN]_vars

\* --------------------------------------------- extractMCC.py: the batch run
\* The documents of the batch runs: empty, one property, two properties, one
\* whose only formula raises ValueError after interning, one that makes
\* translate_formula_node raise IndexError, one with an entry without formula.
BatchEntry(id, f) == [id |-> <<id>>, formula |-> <<Elem("formula", <<f>>)>>]

BatchDocs ==
    {<<>>,
     <<BatchEntry("a", Le)>>,
     <<BatchEntry("a", T1), BatchEntry("b", Le)>>,
     <<BatchEntry("b", ConjErr)>>,
     <<BatchEntry("a", Neg0)>>,
     <<[id |-> <<"a">>, formula |-> <<>>], BatchEntry("b", T2)>>}

\* The files os.walk finds: the directory, the file name and the parsed content.
InputFiles == [dir : {"m1", "m2"}, name : {"x.xml", "y.xml", ".DS_Store"}, doc : BatchDocs]

\* The file lists of the runs: in walk order, no path twice.
FileLists ==
    {fs \in SeqsUpTo(InputFiles, MaxFiles) :
        \A i, j \in 1..Len(fs) :
            (fs[i].dir = fs[j].dir /\ fs[i].name = fs[j].name) => i = j}

\* f"{output_folder}/{file[:-4]}.txt" (the output folder left out).
output_path(file) ==
    (IF Len(file) > 4 THEN SubSeq(file, 1, Len(file) - 4) ELSE "") \o ".txt"

\* unique_id = f"{os.path.basename(os.path.dirname(file_path))}_{prop_id}"
unique_id(dir, prop_id) == dir \o "_" \o prop_id

\* for prop_id, ctl_str in properties.items(): all_properties[unique_id] = ctl_str
RECURSIVE merge_properties(_, _, _, _)
merge_properties(all, dir, properties, k) ==
    IF k > Len(properties) THEN all
    ELSE merge_properties(
             DictSet(all, [id |-> unique_id(dir, properties[k].id),
                           val |-> properties[k].val]),
             dir, properties, k + 1)

\* for prop_id, ctl_str in all_properties.items(): f.write(f"{ctl_str}\n")
lines_of(all) == [k \in 1..Len(all) |-> all[k].val]

\* open(path, "w") and the writes: the file at path is replaced.
write_file(files, path, lines) ==
    [q \in DOMAIN files \cup {path} |-> IF q = path THEN lines ELSE files[q]]

InitM ==
    /\ impl = "mcc"
    /\ propositions_map = EmptyMap
    /\ prop_counter = 0
    /\ node = NoNode
    /\ outcome = NoOutcome
    /\ calls = <<>>
    /\ doc = <<>>
    /\ idx = 0
    /\ extracted_props = <<>>
    /\ pc = "main"
    /\ tree = <<>>
    /\ input_files \in FileLists
    /\ file_idx = 1
    /\ all_properties = <<>>
    /\ output_files = <<>>
    /\ tasks = <<>>
    /\ stdin = 0
    /\ NoScript

\* if file == ".DS_Store": continue
SkipDsStore ==
    /\ pc = "main"
    /\ file_idx <= Len(input_files)
    /\ input_files[file_idx].name = ".DS_Store"
    /\ file_idx' = file_idx + 1
    /\ UNCHANGED <<tree, input_files, all_properties, output_files, tasks, stdin,
                   script_vars, impl, propositions_map, prop_counter, node, outcome,
                   calls, doc, idx, extracted_props, pc>>

\* ctl_parser = CTLParser(); properties = ctl_parser.extract_properties_from_file(
\* file_path): a new parser starts on the file's property entries. The loop of
\* extract_properties_from_file then runs entry by entry; an exception that
\* leaves it ends the run.
StartFile ==
    /\ pc = "main"
    /\ file_idx <= Len(input_files)
    /\ input_files[file_idx].name # ".DS_Store"
    /\ propositions_map' = EmptyMap
    /\ prop_counter' = 0
    /\ doc' = input_files[file_idx].doc
    /\ idx' = 1
    /\ extracted_props' = <<>>
    /\ pc' = "loop"
    /\ UNCHANGED <<driver_vars, impl, node, outcome, calls>>

\* The rest of the iteration, once the properties are returned: they are added
\* to all_properties and the output file of the input file is written.
FinishFile ==
    /\ pc = "returned"
    /\ file_idx <= Len(input_files)
    /\ LET file == input_files[file_idx]
           all == IF extracted_props # <<>>
                  THEN merge_properties(all_properties, file.dir, extracted_props, 1)
                  ELSE all_properties
       IN /\ all_properties' = all
          /\ output_files' = write_file(output_files, output_path(file.name),
                                        lines_of(all))
    /\ file_idx' = file_idx + 1
    /\ pc' = "main"
    /\ UNCHANGED <<tree, input_files, tasks, stdin, script_vars, impl, propositions_map,
                   prop_counter, node, outcome, calls, doc, idx, extracted_props>>

\* The walk is over: print(f"Results saved to ...").
MainEnd ==
    /\ pc = "main"
    /\ file_idx > Len(input_files)
    /\ pc' = "ended"
    /\ UNCHANGED <<driver_vars, impl, propositions_map, prop_counter, node, outcome,
                   calls, doc, idx, extracted_props>>

NextM == SkipDsStore \/ StartFile \/ SkipEntry \/ ExtractEntry \/ Return \/ FinishFile \/ MainEnd

SpecM == InitM /\ [][NextM]_vars

\* ------------------------------- prepare_dataset.py: the threaded batch run
\* NUM_WORKERS = 8
NUM_WORKERS == 8

\* The documents of the threaded runs: empty, one property, an unknown leaf
\* before or after a translatable formula, an entry without formula, a formula
\* that makes translate_formula_node raise IndexError.
WorkerDocs ==
    {<<>>,
     <<BatchEntry("a", Le)>>,
     <<BatchEntry("a", Bogus), BatchEntry("b", Le)>>,
     <<BatchEntry("a", T1), BatchEntry("b", Bogus)>>,
     <<[id |-> <<"a">>, formula |-> <<>>], BatchEntry("b", T2)>>,
     <<BatchEntry("a", Neg0)>>}

\* A submitted call process_file(file_path, new_folder_path): the content of
\* the file, the pass the call is in, the position and result of the loop of
\* extract_properties_from_file in that pass, the lines written to the .ctl and
\* to the .txt file (none: not written).
NewTask(d) == [doc |-> d, pass |-> "queued", idx |-> 0, ex |-> <<>>,
               ctl |-> <<>>, txt |-> <<>>]

TaskLists == {ts \in SeqsUpTo({NewTask(d) : d \in WorkerDocs}, MaxTasks) : ts # <<>>}

InitW ==
    /\ impl = "pd_lola"
    /\ propositions_map = EmptyMap
    /\ prop_counter = 0
    /\ node = NoNode
    /\ outcome = NoOutcome
    /\ calls = <<>>
    /\ doc = <<>>
    /\ idx = 0
    /\ extracted_props = <<>>
    /\ pc = "pool"
    /\ tree = <<>>
    /\ input_files = <<>>
    /\ file_idx = 0
    /\ all_properties = <<>>
    /\ output_files = <<>>
    /\ tasks \in TaskLists
    /\ stdin \in 0..MaxStdin
    /\ NoScript

Running(t) == tasks[t].pass \in {"lola", "plain"}

Finished(t) == tasks[t].pass \in {"done", "failed"}

\* The dialect of the parser of the pass: CTLParser(lola_compatible=True), then
\* CTLParser(lola_compatible=False).
pass_impl(pass) == IF pass = "lola" THEN "pd_lola" ELSE "pd_plain"

worker_vars == <<tree, input_files, file_idx, all_properties, output_files, script_vars,
                 impl, propositions_map, prop_counter, node, outcome, calls, doc, idx,
                 extracted_props, pc>>

\* A free worker thread takes the next submitted call: ctl_parser =
\* CTLParser(lola_compatible=True) and the first pass starts.
TaskStart ==
    \E t \in 1..Len(tasks) :
        /\ pc = "pool"
        /\ tasks[t].pass = "queued"
        /\ \A u \in 1..(t - 1) : tasks[u].pass # "queued"
        /\ Cardinality({u \in 1..Len(tasks) : Running(u)}) < NUM_WORKERS
        /\ tasks' = [tasks EXCEPT ![t] = [@ EXCEPT !.pass = "lola", !.idx = 1]]
        /\ UNCHANGED <<stdin, worker_vars>>

\* The loop of extract_properties_from_file on an entry without id or formula.
TaskSkipEntry ==
    \E t \in 1..Len(tasks) :
        /\ pc = "pool"
        /\ Running(t)
        /\ tasks[t].idx <= Len(prop_nodes(tasks[t].doc))
        /\ ~WellFormed(prop_nodes(tasks[t].doc)[tasks[t].idx])
        /\ tasks' = [tasks EXCEPT ![t] = [@ EXCEPT !.idx = @ + 1]]
        /\ UNCHANGED <<stdin, worker_vars>>

\* The loop on an entry with id and formula. input("wait") takes a line of the
\* console all threads share, or raises EOFError at its end. An exception that
\* leaves extract_properties_from_file is caught in the first pass (print,
\* return) and ends the call in the second.
TaskExtractEntry ==
    \E t \in 1..Len(tasks) :
        /\ pc = "pool"
        /\ Running(t)
        /\ tasks[t].idx <= Len(prop_nodes(tasks[t].doc))
        /\ WellFormed(prop_nodes(tasks[t].doc)[tasks[t].idx])
        /\ LET task == tasks[t]
               s == extract_entry(pass_impl(task.pass), stdin = 0, task.doc, task.idx,
                                  task.ex, EmptyMap, 0)
           IN /\ stdin' = IF s.outcome.waited /\ stdin > 0 THEN stdin - 1 ELSE stdin
              /\ tasks' = [tasks EXCEPT ![t] =
                    IF s.pc = "raised"
                    THEN [@ EXCEPT !.pass = IF task.pass = "lola" THEN "done" ELSE "failed",
                                   !.ex = <<>>]
                    ELSE [@ EXCEPT !.idx = s.idx, !.ex = s.extracted]]
        /\ UNCHANGED worker_vars

\* extract_properties_from_file returns: if properties: the file of the pass
\* is written, one line per property; then the second pass starts or the call
\* returns.
TaskReturn ==
    \E t \in 1..Len(tasks) :
        /\ pc = "pool"
        /\ Running(t)
        /\ tasks[t].idx > Len(prop_nodes(tasks[t].doc))
        /\ LET lines == lines_of(tasks[t].ex)
           IN tasks' = [tasks EXCEPT ![t] =
                 IF @.pass = "lola"
                 THEN [@ EXCEPT !.ctl = lines, !.pass = "plain", !.idx = 1, !.ex = <<>>]
                 ELSE [@ EXCEPT !.txt = lines, !.pass = "done", !.ex = <<>>]]
        /\ UNCHANGED <<stdin, worker_vars>>

\* Every future is completed: the executor is left.
PoolEnd ==
    /\ pc = "pool"
    /\ \A t \in 1..Len(tasks) : Finished(t)
    /\ pc' = "ended"
    /\ UNCHANGED <<driver_vars, impl, propositions_map, prop_counter, node, outcome,
                   calls, doc, idx, extracted_props>>

NextW == TaskStart \/ TaskSkipEntry \/ TaskExtractEntry \/ TaskReturn \/ PoolEnd

SpecW == InitW /\ [][NextW]_vars

\* ----------------------------------- iterative_analysis_manual.py: run_tests
\* other_folders = ["2019", "2020"]
other_folders == <<"2019", "2020">>

\* The property texts of the runs.
PropertyTexts == {"p", "q"}

\* A string of a property list: the text of the property, and whether the
\* string ends with a newline.
ReadLines == [text : PropertyTexts, nl : {TRUE}]

\* f.readlines() on the file of the minimal set, which create_minimal_sets
\* wrote: every line ends with a newline.
MinimalSets == {ps \in SeqsUpTo(ReadLines, 2) : ps # <<>>}

\* The file of other properties of a folder: missing, or its lines.
OtherFiles ==
    {[found |-> FALSE, lines |-> <<>>]}
        \cup {[found |-> TRUE, lines |-> ps] : ps \in SeqsUpTo(ReadLines, MaxOther)}

\* temp_f.write(p) for each p, as the lines the file then holds: a string
\* without newline runs into the string written after it.
RECURSIVE write_lines(_, _, _)
write_lines(ps, k, cur) ==
    IF k > Len(ps) THEN (IF cur = "" THEN <<>> ELSE <<cur>>)
    ELSE IF ps[k].nl THEN <<cur \o ps[k].text>> \o write_lines(ps, k + 1, "")
    ELSE write_lines(ps, k + 1, cur \o ps[k].text)

\* The entries of s at the positions in K, in order.
RECURSIVE Kept(_, _, _)
Kept(s, K, k) ==
    IF k > Len(s) THEN <<>>
    ELSE (IF k \in K THEN <<s[k]>> ELSE <<>>) \o Kept(s, K, k + 1)

\* The required sets the tool may report for the lines it was given: the lines
\* it keeps, in order.
RequiredSets(lines) == {Kept(lines, K, 1) : K \in SUBSET (1..Len(lines))}

\* required_properties_df['Property'].tolist(): the fields of the column, which
\* hold no newline.
tolist(required) == [k \in 1..Len(required) |-> [text |-> required[k], nl |-> FALSE]]

\* The locals of run_tests in the iteration on one row of best_df.
InitA ==
    /\ impl = "mcc"
    /\ propositions_map = EmptyMap
    /\ prop_counter = 0
    /\ node = NoNode
    /\ outcome = NoOutcome
    /\ calls = <<>>
    /\ doc = <<>>
    /\ idx = 0
    /\ extracted_props = <<>>
    /\ pc = "folders"
    /\ tree = <<>>
    /\ NoBatch
    /\ \E m \in MinimalSets, fs \in [1..Len(other_folders) -> OtherFiles] :
          analysis = [minimal_properties |-> m, files |-> fs, folder |-> 1, i |-> 0,
                      other_properties |-> <<>>, current_properties |-> <<>>,
                      temp |-> <<>>]
    /\ monitor = <<>>

analysis_frame == <<tree, batch_vars, monitor, impl, propositions_map, prop_counter, node,
                    outcome, calls, doc, idx, extracted_props>>

\* except FileNotFoundError: print(...); continue
OtherNotFound ==
    /\ pc = "folders"
    /\ analysis.folder <= Len(other_folders)
    /\ ~analysis.files[analysis.folder].found
    /\ analysis' = [analysis EXCEPT !.folder = @ + 1]
    /\ UNCHANGED <<pc, analysis_frame>>

\* other_properties = f.readlines(); current_properties = minimal_properties.copy()
OpenOther ==
    /\ pc = "folders"
    /\ analysis.folder <= Len(other_folders)
    /\ analysis.files[analysis.folder].found
    /\ analysis' = [analysis EXCEPT !.other_properties = analysis.files[analysis.folder].lines,
                                    !.current_properties = analysis.minimal_properties,
                                    !.i = 1]
    /\ pc' = "props"
    /\ UNCHANGED analysis_frame

\* One iteration on a property of the other folder: it is appended to
\* current_properties, the temp file is written from current_properties, the
\* tool runs on it, and minimal_properties becomes the Property column of the
\* required_properties.csv the tool wrote.
AnalysisStep ==
    /\ pc = "props"
    /\ analysis.i <= Len(analysis.other_properties)
    /\ LET current == Append(analysis.current_properties,
                             analysis.other_properties[analysis.i])
           written == write_lines(current, 1, "")
       IN \E required \in RequiredSets(written) :
             analysis' = [analysis EXCEPT !.current_properties = current,
                                          !.temp = written,
                                          !.minimal_properties = tolist(required),
                                          !.i = @ + 1]
    /\ UNCHANGED <<pc, analysis_frame>>

\* The same iteration when the tool leaves no required_properties.csv:
\* pd.read_csv raises FileNotFoundError, which leaves run_tests.
AnalysisFails ==
    /\ pc = "props"
    /\ analysis.i <= Len(analysis.other_properties)
    /\ LET current == Append(analysis.current_properties,
                             analysis.other_properties[analysis.i])
       IN analysis' = [analysis EXCEPT !.current_properties = current,
                                       !.temp = write_lines(current, 1, "")]
    /\ pc' = "raised"
    /\ UNCHANGED analysis_frame

\* The properties of the folder are used up: the next folder.
NextFolder ==
    /\ pc = "props"
    /\ analysis.i > Len(analysis.other_properties)
    /\ analysis' = [analysis EXCEPT !.folder = @ + 1]
    /\ pc' = "folders"
    /\ UNCHANGED analysis_frame

\* The folders are used up.
RunTestsEnd ==
    /\ pc = "folders"
    /\ analysis.folder > Len(other_folders)
    /\ pc' = "ended"
    /\ UNCHANGED <<analysis, analysis_frame>>

NextA ==
    OtherNotFound \/ OpenOther \/ AnalysisStep \/ AnalysisFails \/ NextFolder \/ RunTestsEnd

SpecA == InitA /\ [][NextA]_vars

\* ------------------------------------- run_lola_benchmark.py: test_one_model
\* Output lines, as their parts between colons.
ResultLine == <<"lola", " result", " yes">>

UnknownLine == <<"lola", " Maximum resident set size unknown">>

CommandLine == <<"\tCommand being timed", " \"lola\"">>

MemoryLine == <<"\tMaximum resident set size (kbytes)", " 1234">>

ExitLine == <<"\tExit status", " 0">>

\* What /usr/bin/time -v prints when the command has ended.
TimeReport == <<CommandLine, MemoryLine, ExitLine>>

\* What the subprocess writes in a run: the lines of the tool, then the report.
Outputs == {tool \o TimeReport : tool \in SeqsUpTo({ResultLine, UnknownLine}, MaxToolLines)}

\* The resident set sizes the probe may see while the process runs.
RssValues == {1, 2}

\* "Maximum resident set size" in line
has_phrase(line) ==
    \E k \in 1..Len(line) :
        line[k] \in {"\tMaximum resident set size (kbytes)",
                     " Maximum resident set size unknown"}

\* int(line.split(":")[1].strip()): the number, or none on IndexError and on
\* ValueError.
parse_memory(line) ==
    IF Len(line) < 2 THEN <<>>
    ELSE IF line[2] = " 1234" THEN <<1234>>
    ELSE <<>>

\* peak_memory = None; for line in stdout.splitlines(): ...
RECURSIVE parse_output(_, _, _)
parse_output(lines, k, peak_memory) ==
    IF k > Len(lines) THEN peak_memory
    ELSE IF has_phrase(lines[k]) /\ parse_memory(lines[k]) # <<>>
    THEN parse_output(lines, k + 1, parse_memory(lines[k]))
    ELSE parse_output(lines, k + 1, peak_memory)

\* After Popen and os.set_blocking(fd, False): the subprocess runs and has
\* written nothing.
InitR ==
    /\ impl = "mcc"
    /\ propositions_map = EmptyMap
    /\ prop_counter = 0
    /\ node = NoNode
    /\ outcome = NoOutcome
    /\ calls = <<>>
    /\ doc = <<>>
    /\ idx = 0
    /\ extracted_props = <<>>
    /\ pc = "check"
    /\ tree = <<>>
    /\ NoBatch
    /\ analysis = <<>>
    /\ \E out \in Outputs :
          monitor = [output |-> out, to_write |-> out, pipe |-> <<>>, buffer |-> <<>>,
                     proc |-> "running", full_output |-> <<>>, peak_mem |-> 0,
                     peak_memory |-> <<>>, timed_out |-> FALSE]

monitor_frame == <<tree, batch_vars, analysis, impl, propositions_map, prop_counter, node,
                   outcome, calls, doc, idx, extracted_props>>

\* The subprocess writes its next line to the pipe.
ProcWrite ==
    /\ monitor.proc = "running"
    /\ monitor.to_write # <<>>
    /\ monitor' = [monitor EXCEPT !.pipe = Append(@, Head(monitor.to_write)),
                                  !.to_write = Tail(@)]
    /\ UNCHANGED <<pc, monitor_frame>>

\* The subprocess ends once everything is written: its end of the pipe is
\* closed, and it stays in the process table until it is waited for.
ProcExit ==
    /\ monitor.proc = "running"
    /\ monitor.to_write = <<>>
    /\ monitor' = [monitor EXCEPT !.proc = "exited"]
    /\ UNCHANGED <<pc, monitor_frame>>

\* select.select([fd], [], [], t)[0]: the pipe holds data or is at its end.
\* Lines already taken into the reader's buffer do not count.
ready == monitor.pipe # <<>> \/ monitor.proc # "running"

\* if proc.poll() is not None and not select.select([fd], [], [], 0)[0]: break
\* poll() waits for a subprocess that has ended.
CheckEnded ==
    /\ pc = "check"
    /\ monitor' = [monitor EXCEPT !.proc = IF @ = "exited" THEN "reaped" ELSE @]
    /\ pc' = IF monitor.proc # "running" /\ ~ready THEN "parse" ELSE "select"
    /\ UNCHANGED monitor_frame

\* ready, _, _ = select.select([fd], [], [], 0.1); if ready: line =
\* proc.stdout.readline(); if line: full_output.append(line). readline returns
\* the next line of the reader's buffer; with the buffer empty it takes all the
\* pipe holds into the buffer first; at the end of the pipe it returns "".
ReadLine ==
    /\ pc = "select"
    /\ monitor' =
          IF ~ready THEN monitor
          ELSE IF monitor.buffer # <<>>
          THEN [monitor EXCEPT !.full_output = Append(@, Head(monitor.buffer)),
                               !.buffer = Tail(@)]
          ELSE IF monitor.pipe # <<>>
          THEN [monitor EXCEPT !.full_output = Append(@, Head(monitor.pipe)),
                               !.buffer = Tail(monitor.pipe),
                               !.pipe = <<>>]
          ELSE monitor
    /\ pc' = "probe"
    /\ UNCHANGED monitor_frame

\* mem = p.memory_info().rss; if mem > peak_mem: peak_mem = mem; except
\* psutil.NoSuchProcess: break. A process that has ended and is not waited for
\* reports 0; one that was waited for is gone.
TrackMemory ==
    /\ pc = "probe"
    /\ \E rss \in RssValues :
          LET mem == IF monitor.proc = "running" THEN rss ELSE 0
          IN IF monitor.proc = "reaped"
             THEN /\ pc' = "parse"
                  /\ UNCHANGED monitor
             ELSE /\ pc' = "timeout"
                  /\ monitor' = [monitor EXCEPT !.peak_mem = IF mem > @ THEN mem ELSE @]
    /\ UNCHANGED monitor_frame

\* if time.perf_counter() - start_time > timeout_s: false.
NoTimeout ==
    /\ pc = "timeout"
    /\ pc' = "check"
    /\ UNCHANGED <<monitor, monitor_frame>>

\* The test is true: the process is killed and waited for, TimeoutExpired is
\* raised and handled: peak_memory = None.
Timeout ==
    /\ pc = "timeout"
    /\ monitor' = [monitor EXCEPT !.proc = "reaped", !.timed_out = TRUE,
                                  !.peak_memory = <<>>]
    /\ pc' = "done"
    /\ UNCHANGED monitor_frame

\* After the loop: stdout = "".join(full_output) and the search for the
\* memory line.
ParseOutput ==
    /\ pc = "parse"
    /\ monitor' = [monitor EXCEPT !.peak_memory = parse_output(monitor.full_output, 1, <<>>)]
    /\ pc' = "done"
    /\ UNCHANGED monitor_frame

NextR ==
    \/ ProcWrite \/ ProcExit
    \/ CheckEnded \/ ReadLine \/ TrackMemory \/ NoTimeout \/ Timeout \/ ParseOutput

SpecR == InitR /\ [][NextR]_vars

\* ==================================================================== claims

\* C1: within one session, after any sequence of _get_prop_id calls, two calls
\* return the same symbol exactly when their subtrees have the same canonical
\* serialization, and the table never maps two distinct keys to one symbol.
C1_InterningCorrect ==
    /\ \A i, j \in 1..Len(calls) :
          (calls[i].key = calls[j].key) <=> (calls[i].sym = calls[j].sym)
    /\ \A k1, k2 \in DOMAIN propositions_map :
          propositions_map[k1] = propositions_map[k2] => k1 = k2

\* A session that interned one subtree twice and another one in between.
C1_Witness ==
    \E i, j, k \in 1..Len(calls) :
        /\ i < k /\ k < j
        /\ calls[i].key = calls[j].key
        /\ calls[k].key # calls[i].key

\* The atomic subtrees the translation walk meets, in pre-order: the children of
\* a conjunction or disjunction left to right, the operand of a negation or of a
\* temporal operator, the before operand of an until and then its reach operand,
\* the first child of a wrapper; an atomic subtree is not entered.
RECURSIVE AtomsMet(_)
RECURSIVE AtomsMetAll(_, _)
AtomsMetFirst(kids) == IF kids = <<>> THEN <<>> ELSE AtomsMet(kids[1])

AtomsMetAll(kids, i) ==
    IF i > Len(kids) THEN <<>> ELSE AtomsMet(kids[i]) \o AtomsMetAll(kids, i + 1)

AtomsMet(n) ==
    IF n.tag \in {_tag("conjunction"), _tag("disjunction")} THEN AtomsMetAll(n.kids, 1)
    ELSE IF n.tag = _tag("negation") THEN AtomsMetFirst(n.kids)
    ELSE IF /\ n.tag \in PathQuantifierTags
            /\ n.kids # <<>>
            /\ n.kids[1].tag \in {_tag("globally"), _tag("finally"), _tag("next")}
    THEN AtomsMetFirst(n.kids[1].kids)
    ELSE IF n.tag \in PathQuantifierTags /\ n.kids # <<>> /\ n.kids[1].tag = _tag("until")
    THEN LET w == n.kids[1].kids
         IN (IF Len(w) >= 1 THEN AtomsMetFirst(find_any(w[1])) ELSE <<>>)
            \o (IF Len(w) >= 2 THEN AtomsMetFirst(find_any(w[2])) ELSE <<>>)
    ELSE IF n.tag \in {_tag("integer-le"), _tag("is-fireable"), _tag("tokens-count")}
    THEN <<n>>
    ELSE AtomsMetFirst(n.kids)

\* s without the elements that occurred earlier in it.
FirstOccurrences(s) ==
    SelectSeq([i \in 1..Len(s) |-> IF \E j \in 1..(i - 1) : s[j] = s[i] THEN <<>> ELSE <<s[i]>>],
              LAMBDA x : x # <<>>)

\* C2: after translating a tree with a fresh interner under the opaque policy,
\* the k-th distinct atomic subtree of the pre-order walk has the symbol p(k-1):
\* the table holds exactly these entries when the translation returned, and the
\* first prop_counter of them when it raised.
C2_SymbolMonotonicity ==
    (pc = "done" /\ impl = "mcc") =>
        LET met == FirstOccurrences([i \in 1..Len(AtomsMet(node)) |->
                                        tostring(AtomsMet(node)[i])])
        IN /\ prop_counter <= Len(met)
           /\ outcome.kind = "ok" => prop_counter = Len(met)
           /\ DOMAIN propositions_map = {met[k][1] : k \in 1..prop_counter}
           /\ \A k \in 1..prop_counter :
                 propositions_map[met[k][1]] = "p" \o ToString(k - 1)

\* A returned translation that met three distinct atomic subtrees, one of them
\* more than once.
C2_Witness ==
    /\ pc = "done" /\ impl = "mcc" /\ outcome.kind = "ok"
    /\ prop_counter = 3
    /\ Len(AtomsMet(node)) > 3

\* C3: an entry of the document that is skipped (no id, no formula, or its
\* translation raised the caught error) leaves the proposition table and the
\* counter as they were before it.
C3_SkippedConsumesNoSymbols ==
    [][(pc = "loop" /\ idx' = idx + 1 /\ extracted_props' = extracted_props)
          => (propositions_map' = propositions_map /\ prop_counter' = prop_counter)]_vars

\* The loop is about to translate the formula of an entry with id and formula.
Translating == InLoop /\ doc[idx].id # <<>> /\ doc[idx].formula # <<>>

\* C4: when translating an entry fails, the entry is omitted and the loop goes
\* on with the next entry: no such failure leaves the function.
C4_FailureNeverAborts ==
    [][(Translating /\ outcome'.kind # "ok")
          => (pc' = "loop" /\ idx' = idx + 1 /\ extracted_props' = extracted_props)]_vars

RECURSIVE Subtrees(_)
Subtrees(n) == {n} \cup UNION {Subtrees(n.kids[i]) : i \in 1..Len(n.kids)}

\* C5: translate_formula_node returns a string or raises ValueError with the
\* tag of a childless unrecognized node of the tree, and nothing else.
C5_OnlyValueError ==
    pc = "done" =>
        \/ outcome.kind = "ok" /\ ~outcome.none
        \/ /\ outcome.kind = "ValueError"
           /\ \E n \in Subtrees(node) :
                 /\ n.kids = <<>>
                 /\ outcome.val = "Unknown or unhandled XML tag: " \o TagStr(n.tag)

\* The tags the opaque policy is to hand to the interner.
OpaqueTags ==
    {_tag("integer-le"), _tag("integer-eq"), _tag("is-fireable"),
     _tag("tokens-count"), _tag("place"), _tag("integer-constant")}

\* C6: under the opaque policy a node with one of the six atomic tags is
\* interned whole: its translation is the symbol of its own serialization.
C6_AtomInternedWhole ==
    (pc = "done" /\ impl = "mcc" /\ node.tag \in OpaqueTags) =>
        /\ outcome.kind = "ok"
        /\ DOMAIN propositions_map = {tostring(node)}
        /\ outcome.val = propositions_map[tostring(node)]

QuantifierLetter(n) == IF n.tag = <<MCC_NAMESPACE, "all-paths">> THEN "A" ELSE "E"

\* n is all-paths(next(phi)) or exists-path(next(phi)).
IsQuantNext(n) ==
    /\ n.tag \in {<<MCC_NAMESPACE, "all-paths">>, <<MCC_NAMESPACE, "exists-path">>}
    /\ Len(n.kids) = 1
    /\ n.kids[1].tag = <<MCC_NAMESPACE, "next">>
    /\ Len(n.kids[1].kids) = 1

\* C7: Q(next(phi)) is rendered QX (phi) by the keyword dialect and
\* Q(false W (phi)) by the symbolic dialect of either implementation, phi
\* standing for the translation of phi.
C7_NextRendering ==
    (pc = "done" /\ IsQuantNext(node)) =>
        LET Q == QuantifierLetter(node)
            phi == node.kids[1].kids[1]
            m == translate_formula_node(phi, EmptyMap, 0)
        IN /\ (impl = "mcc" /\ m.kind = "ok") =>
                 /\ outcome.kind = "ok"
                 /\ outcome.val = Q \o "(false W (" \o m.val \o "))"
           /\ \A eof \in BOOLEAN :
                 LET p == pd_translate_formula_node(phi, impl = "pd_lola", eof)
                 IN (impl # "mcc" /\ p.kind = "ok" /\ ~p.none) =>
                       /\ outcome.kind = "ok"
                       /\ impl = "pd_plain" =>
                             outcome.val = Q \o "(false W (" \o p.val \o "))"
                       /\ impl = "pd_lola" => outcome.val = Q \o "X (" \o p.val \o ")"

\* The keyword dialect translated all-paths(next(a <= 1)).
C7_Witness ==
    /\ pc = "done" /\ impl = "pd_lola"
    /\ IsQuantNext(node)
    /\ node.tag = <<MCC_NAMESPACE, "all-paths">>
    /\ node.kids[1].kids[1] = Le
    /\ outcome.val = "AX ((a <= 1))"

\* n is a path quantifier over an until whose two children each wrap one
\* sub-formula.
IsQuantUntil(n) ==
    /\ n.tag \in {<<MCC_NAMESPACE, "all-paths">>, <<MCC_NAMESPACE, "exists-path">>}
    /\ Len(n.kids) = 1
    /\ n.kids[1].tag = <<MCC_NAMESPACE, "until">>
    /\ Len(n.kids[1].kids) = 2
    /\ \A w \in 1..2 : /\ Len(n.kids[1].kids[w].kids) = 1
                       /\ n.kids[1].kids[w].kids[1].tag[1] = MCC_NAMESPACE

\* C8: Q(until(w1(f), w2(g))) is rendered Q(f U g): the sub-formulas inside the
\* two wrappers are translated, f before g, and keep their order.
C8_UntilOperands ==
    (pc = "done" /\ IsQuantUntil(node)) =>
        LET Q == QuantifierLetter(node)
            f == node.kids[1].kids[1].kids[1]
            g == node.kids[1].kids[2].kids[1]
            mf == translate_formula_node(f, EmptyMap, 0)
            mg == translate_formula_node(g, mf.pm, mf.counter)
        IN /\ (impl = "mcc" /\ mf.kind = "ok" /\ mg.kind = "ok") =>
                 /\ outcome.kind = "ok"
                 /\ outcome.val = Q \o "(" \o mf.val \o " U " \o mg.val \o ")"
           /\ \A eof \in BOOLEAN :
                 LET pf == pd_translate_formula_node(f, impl = "pd_lola", eof)
                     pg == pd_translate_formula_node(g, impl = "pd_lola", eof)
                 IN (impl # "mcc" /\ pf.kind = "ok" /\ pg.kind = "ok"
                        /\ ~pf.none /\ ~pg.none) =>
                       /\ outcome.kind = "ok"
                       /\ outcome.val = Q \o "(" \o pf.val \o " U " \o pg.val \o ")"

\* extractMCC translated all-paths(until(before(T1), reach(T2))).
C8_Witness ==
    /\ pc = "done" /\ impl = "mcc"
    /\ IsQuantUntil(node)
    /\ node.kids[1].kids[1].kids[1] = T1
    /\ node.kids[1].kids[2].kids[1] = T2
    /\ outcome.val = "A(p0 U p1)"

\* C9: the result is ordered like the document: of two items, the one whose
\* formula came from the earlier entry is first.
C9_OrderMirrorsInput ==
    \A i, j \in 1..Len(extracted_props) :
        i < j => extracted_props[i].entry < extracted_props[j].entry

Malformed(e) == e.id = <<>> \/ e.formula = <<>>

\* Translating the entry's formula returns a string (whatever the interner holds).
Translatable(e) ==
    /\ ~Malformed(e)
    /\ IF impl = "mcc"
       THEN translate_formula_node(e.formula[1], EmptyMap, 0).kind = "ok"
       ELSE \E eof \in BOOLEAN :
               LET p == pd_translate_formula_node(e.formula[1], impl = "pd_lola", eof)
               IN p.kind = "ok" /\ ~p.none

\* The ids and the formula strings of the items, in order (the strings left
\* out when withVal is false).
IdsVals(ex, withVal) ==
    [k \in 1..Len(ex) |-> <<ex[k].id, IF withVal THEN ex[k].val ELSE "">>]

\* C10: an entry without id or without formula never makes the function fail
\* and contributes no item; in the returned result every translatable entry has
\* its id; a document of one translatable entry and one entry without id gives
\* exactly one item; and the function ends on the document as it ends on the
\* document without its malformed entries: it raises when that one raises, and
\* returns the same ids in the same order (with the same strings and the same
\* proposition table, up to the keyword dialect's terminator).
C10_MalformedSkipped ==
    /\ pc = "raised" => ~Malformed(doc[idx])
    /\ \A k \in 1..Len(extracted_props) : ~Malformed(doc[extracted_props[k].entry])
    /\ pc = "returned" =>
          /\ \A i \in 1..Len(doc) :
                Translatable(doc[i]) =>
                   \E k \in 1..Len(extracted_props) : extracted_props[k].id = doc[i].id[1]
          /\ (/\ Len(doc) = 2
              /\ \E i, j \in 1..2 : /\ i # j
                                    /\ Translatable(doc[i])
                                    /\ doc[j].id = <<>>)
                => Len(extracted_props) = 1
    /\ LET rest == SelectSeq(doc, LAMBDA e : ~Malformed(e))
       IN /\ pc = "raised" =>
                \E eof \in BOOLEAN :
                    extract_properties_from_file(impl, eof, rest).pc = "raised"
          /\ pc = "returned" =>
                LET r == extract_properties_from_file(impl, FALSE, rest)
                IN /\ r.pc = "returned"
                   /\ IdsVals(r.extracted, impl # "pd_lola")
                         = IdsVals(extracted_props, impl # "pd_lola")
                   /\ r.pm = propositions_map
                   /\ r.counter = prop_counter

\* A returned document of two entries: the first without id, the second
\* translated to the only item of the result.
C10_Witness ==
    /\ pc = "returned"
    /\ Len(doc) = 2
    /\ doc[1].id = <<>> /\ doc[1].formula # <<>>
    /\ Translatable(doc[2])
    /\ Len(extracted_props) = 1
    /\ extracted_props[1].entry = 2

\* The string s ends with the character c.
EndsWith(s, c) == Len(s) > 0 /\ SubSeq(s, Len(s), Len(s)) = c

\* C11: in the result of extract_properties_from_file every formula string ends
\* with the terminator ':' under the keyword dialect, and none does under the
\* symbolic dialect.
C11_TerminatorOnEvery ==
    pc = "returned" =>
        \A k \in 1..Len(extracted_props) :
            ~extracted_props[k].none =>
                (impl = "pd_lola" <=> EndsWith(extracted_props[k].val, ":"))

\* n is is-fireable over one transition leaf that has a text.
IsFireableOfTransition(n) ==
    /\ n.tag = <<MCC_NAMESPACE, "is-fireable">>
    /\ Len(n.kids) = 1
    /\ n.kids[1].tag = <<MCC_NAMESPACE, "transition">>
    /\ n.kids[1].kids = <<>>
    /\ n.kids[1].text # <<>>

\* C12: under the structural policy, is-fireable over a transition leaf with
\* text t translates to the string t.
C12_IsFireableEmitsName ==
    (pc = "done" /\ impl \in {"pd_lola", "pd_plain"} /\ IsFireableOfTransition(node)) =>
        /\ outcome.kind = "ok"
        /\ ~outcome.none
        /\ outcome.val = node.kids[1].text[1]

\* C13: a translate_formula_node call that has finished never waited for the
\* console (or any other external event) on the way, whatever the implementation
\* and the dispatch path taken.
C13_NeverWaits ==
    pc = "done" => ~outcome.waited

RECURSIVE SymbolsFrom(_, _)
SymbolsFrom(i, n) ==
    IF i >= n THEN "p" \o ToString(i - 1)
    ELSE "p" \o ToString(i - 1) \o " & " \o SymbolsFrom(i + 1, n)

\* The atomic subtrees under a conjunction: each child element with its
\* descendants, without the text that follows its end tag in the parent.
AtomsUnder(n) == {[n.kids[i] EXCEPT !.tail = ""] : i \in 1..Len(n.kids)}

\* n is a conjunction of one or more atomic subtrees (of the tags
\* extractMCC.py interns).
IsConjunctionOfAtoms(n) ==
    /\ n.tag = <<MCC_NAMESPACE, "conjunction">>
    /\ Len(n.kids) >= 1
    /\ \A i \in 1..Len(n.kids) :
          n.kids[i].tag \in {<<MCC_NAMESPACE, "integer-le">>,
                             <<MCC_NAMESPACE, "is-fireable">>,
                             <<MCC_NAMESPACE, "tokens-count">>}

\* C15: under the opaque policy with a fresh interner, a conjunction of atomic
\* subtrees returns with as many table entries as there are distinct atoms among
\* them, and as '(p0 & ... & p(n-1))' when its n atoms are pairwise distinct.
C15_ConjunctionOfAtoms ==
    (pc = "done" /\ impl = "mcc" /\ IsConjunctionOfAtoms(node)) =>
        /\ outcome.kind = "ok"
        /\ Cardinality(DOMAIN propositions_map) = Cardinality(AtomsUnder(node))
        /\ prop_counter = Cardinality(AtomsUnder(node))
        /\ Cardinality(AtomsUnder(node)) = Len(node.kids) =>
              outcome.val = "(" \o SymbolsFrom(1, Len(node.kids)) \o ")"

\* parts[i] + ' ' + token + ' ' + ... + parts[n], for a non-empty parts.
RECURSIVE JoinedWith(_, _, _)
JoinedWith(parts, token, i) ==
    IF i >= Len(parts) THEN parts[i]
    ELSE parts[i] \o " " \o token \o " " \o JoinedWith(parts, token, i + 1)

\* What extractMCC's translate_formula_node does on each of kids from the i-th
\* on, called in document order on one parser.
RECURSIVE InOrder(_, _, _, _)
InOrder(kids, i, pm, counter) ==
    IF i > Len(kids) THEN <<>>
    ELSE LET r == translate_formula_node(kids[i], pm, counter)
         IN <<r>> \o InOrder(kids, i + 1, r.pm, r.counter)

\* What prepare_dataset's translate_formula_node does on each of kids.
PdEach(kids, lola, eof) ==
    [i \in 1..Len(kids) |-> pd_translate_formula_node(kids[i], lola, eof)]

AllReturned(rs) == \A i \in 1..Len(rs) : rs[i].kind = "ok"

Strings(rs) == [i \in 1..Len(rs) |-> rs[i].val]

\* The dialect's AND or OR token for a conjunction or disjunction node.
TokenOf(n) ==
    IF n.tag = <<MCC_NAMESPACE, "conjunction">>
    THEN (IF impl = "pd_lola" THEN "AND" ELSE "&")
    ELSE (IF impl = "pd_lola" THEN "OR" ELSE "|")

IsJunction(n) ==
    /\ n.tag \in {<<MCC_NAMESPACE, "conjunction">>, <<MCC_NAMESPACE, "disjunction">>}
    /\ Len(n.kids) >= 1

\* C16: a conjunction or disjunction of n >= 1 children that translate to
\* strings is rendered '(' c1 ' TOKEN ' ... ' TOKEN ' cn ')', the children in
\* document order and TOKEN the dialect's AND or OR token (& and | in the
\* symbolic dialect, AND and OR in the keyword dialect); one child gives '(' c1 ')'.
C16_JunctionRendering ==
    (pc = "done" /\ IsJunction(node)) =>
        /\ impl = "mcc" =>
              LET rs == InOrder(node.kids, 1, EmptyMap, 0)
              IN AllReturned(rs) =>
                    /\ outcome.kind = "ok"
                    /\ outcome.val = "(" \o JoinedWith(Strings(rs), TokenOf(node), 1) \o ")"
        /\ impl # "mcc" =>
              \A eof \in BOOLEAN :
                  LET rs == PdEach(node.kids, impl = "pd_lola", eof)
                  IN (AllReturned(rs) /\ \A i \in 1..Len(rs) : ~rs[i].none) =>
                        /\ outcome.kind = "ok"
                        /\ outcome.val
                              = "(" \o JoinedWith(Strings(rs), TokenOf(node), 1) \o ")"

\* The keyword dialect translated disjunction(a <= 1, place a).
C16_Witness ==
    /\ pc = "done" /\ impl = "pd_lola"
    /\ node = Elem("disjunction", <<Le, PlaceA>>)
    /\ outcome.val = "((a <= 1) OR a)"

\* C17: under the structural policy, integer-le (integer-eq) over two children
\* that translate to strings is rendered '(' first ' <= ' second ')' (with
\* ' = '), tokens-count over one child translates as that child, and a place or
\* integer-constant leaf translates to its text.
C17_StructuralAtoms ==
    (pc = "done" /\ impl \in {"pd_lola", "pd_plain"}) =>
        /\ (node.tag \in {<<MCC_NAMESPACE, "integer-le">>, <<MCC_NAMESPACE, "integer-eq">>}
               /\ Len(node.kids) = 2) =>
              \A eof \in BOOLEAN :
                  LET rs == PdEach(node.kids, impl = "pd_lola", eof)
                      sign == IF node.tag = <<MCC_NAMESPACE, "integer-le">>
                              THEN " <= " ELSE " = "
                  IN (AllReturned(rs) /\ ~rs[1].none /\ ~rs[2].none) =>
                        /\ outcome.kind = "ok" /\ ~outcome.none
                        /\ outcome.val = "(" \o rs[1].val \o sign \o rs[2].val \o ")"
        /\ (node.tag = <<MCC_NAMESPACE, "tokens-count">> /\ Len(node.kids) = 1) =>
              \A eof \in BOOLEAN :
                  LET r == pd_translate_formula_node(node.kids[1], impl = "pd_lola", eof)
                  IN (r.kind = "ok" /\ ~r.none) => outcome = r
        /\ (node.tag \in {<<MCC_NAMESPACE, "place">>, <<MCC_NAMESPACE, "integer-constant">>}
               /\ node.kids = <<>> /\ node.text # <<>>) =>
              /\ outcome.kind = "ok" /\ ~outcome.none
              /\ outcome.val = node.text[1]

\* The symbolic dialect of prepare_dataset.py translated
\* integer-eq(tokens-count(place a), integer-constant 1).
C17_Witness ==
    /\ pc = "done" /\ impl = "pd_plain"
    /\ node = Eq
    /\ outcome.val = "(a = 1)"

\* The tags of the dispatch rules 1 to 5.
DispatchTags ==
    {<<MCC_NAMESPACE, t>> : t \in {"conjunction", "disjunction", "negation",
                                   "all-paths", "exists-path",
                                   "integer-le", "integer-eq", "is-fireable",
                                   "tokens-count", "place", "integer-constant"}}

\* C18: a node with children whose tag is none of the dispatch rules' is a
\* transparent wrapper: the call ends exactly as the translation of its first
\* child ends (same string or same error, same table), whatever the other
\* children are.
C18_TransparentWrapper ==
    (pc = "done" /\ node.tag \notin DispatchTags /\ node.kids # <<>>) =>
        /\ impl = "mcc" =>
              LET r == translate_formula_node(node.kids[1], EmptyMap, 0)
              IN /\ outcome.kind = r.kind
                 /\ outcome.val = r.val
                 /\ propositions_map = r.pm
                 /\ prop_counter = r.counter
        /\ impl # "mcc" =>
              \E eof \in BOOLEAN :
                  outcome = pd_translate_formula_node(node.kids[1], impl = "pd_lola", eof)

\* extractMCC translated formula(integer-le(..), is-fireable(t1)) to the symbol
\* of its first child; the second child was not interned.
C18_Witness ==
    /\ pc = "done" /\ impl = "mcc"
    /\ node = Elem("formula", <<Le, T1>>)
    /\ outcome.val = "p0"
    /\ prop_counter = 1

\* C19: the proposition table of a session starts empty with the counter at 0,
\* and no _get_prop_id or translate_formula_node call removes or changes an
\* entry or decreases the counter.
C19_TableOnlyGrows ==
    /\ propositions_map = EmptyMap /\ prop_counter = 0
    /\ [][/\ \A k \in DOMAIN propositions_map :
                /\ k \in DOMAIN propositions_map'
                /\ propositions_map'[k] = propositions_map[k]
          /\ prop_counter' >= prop_counter]_vars

\* A session of _get_prop_id calls and translations, the last of which raised,
\* with a table grown to four entries or more by both kinds of call.
C19_Witness ==
    /\ pc = "parser"
    /\ outcome.kind = "ValueError"
    /\ tostring(T1Tail) \in DOMAIN propositions_map
    /\ Cardinality(DOMAIN propositions_map) >= 4

\* C20: when the file is not well-formed XML, extract_properties_from_file
\* extracts nothing, leaves the interner as it was, and the failure reaches the
\* caller: the call ends with an error, not with a result.
C20_ParseFailureSurfaced ==
    outcome.kind = "ParseError" =>
        /\ extracted_props = <<>>
        /\ propositions_map = EmptyMap /\ prop_counter = 0
        /\ pc = "raised"

\* The string s begins with the character c.
StartsWith(s, c) == Len(s) > 0 /\ SubSeq(s, 1, 1) = c

\* C24: a path-quantifier node that translates to a string contributes its
\* letter: the string of all-paths(...) begins with A and that of
\* exists-path(...) with E, whatever the operator child is.
C24_QuantifierKept ==
    (/\ pc = "done"
     /\ node.tag \in {<<MCC_NAMESPACE, "all-paths">>, <<MCC_NAMESPACE, "exists-path">>}
     /\ outcome.kind = "ok" /\ ~outcome.none) =>
        StartsWith(outcome.val, QuantifierLetter(node))

\* C25: the returned result has one item for each entry of the document that
\* has an id and a formula and whose formula translates to a string, also when
\* entries share an id, and each such entry is the origin of an item.
C25_OneResultPerEntry ==
    pc = "returned" =>
        LET good == {i \in 1..Len(doc) : Translatable(doc[i])}
        IN /\ Len(extracted_props) = Cardinality(good)
           /\ \A i \in good :
                 \E k \in 1..Len(extracted_props) : extracted_props[k].entry = i

\* C26: under the keyword dialect the terminator separates the items of the
\* returned result: every formula string but the last ends with ':' and the
\* last does not.
C26_TerminatorSeparates ==
    (pc = "returned" /\ impl = "pd_lola") =>
        \A k \in 1..Len(extracted_props) :
            ~extracted_props[k].none =>
                (k < Len(extracted_props) <=> EndsWith(extracted_props[k].val, ":"))

\* C28: in every state of a session of extractMCC.py's parser, prop_counter is
\* the number of entries of the table and the symbols of the table are exactly
\* p0 .. p(prop_counter-1), each held by one key, also after a call that raised.
C28_CounterMatchesTable ==
    /\ prop_counter = Cardinality(DOMAIN propositions_map)
    /\ {propositions_map[k] : k \in DOMAIN propositions_map}
          = {"p" \o ToString(i) : i \in 0..(prop_counter - 1)}
    /\ \A k1, k2 \in DOMAIN propositions_map :
          propositions_map[k1] = propositions_map[k2] => k1 = k2

\* A session in which the translation of conjunction(is-fireable(t2), bogus)
\* interned its first child as the third symbol and then raised.
C28_Witness ==
    /\ pc = "parser"
    /\ node = ConjErr
    /\ outcome.kind = "ValueError"
    /\ tostring(T2) \in DOMAIN propositions_map
    /\ propositions_map[tostring(T2)] = "p2"

\* Every atomic subtree the translation walk of n meets is in the table pm.
AllInterned(n, pm) ==
    \A i \in 1..Len(AtomsMet(n)) : tostring(AtomsMet(n)[i]) \in DOMAIN pm

\* C29: on one parser, a translate_formula_node call on a tree all of whose
\* atomic subtrees are in the table leaves the table and the counter as they
\* were; and a call on the tree the previous call translated to a string returns
\* that string again and changes neither table nor counter.
C29_Retranslation ==
    [][(pc = "parser" /\ outcome'.kind # "none") =>
          /\ AllInterned(node', propositions_map) =>
                /\ propositions_map' = propositions_map
                /\ prop_counter' = prop_counter
          /\ (node' = node /\ outcome.kind = "ok") =>
                /\ outcome' = outcome
                /\ propositions_map' = propositions_map
                /\ prop_counter' = prop_counter]_vars

\* The last call translated conjunction(T2, T1) to '(p0 & p1)' on a parser
\* whose table holds four entries: both atoms were interned before the two
\* later entries, hence before this call.
C29_Witness ==
    /\ pc = "parser"
    /\ node = Elem("conjunction", <<T2, T1>>)
    /\ outcome.kind = "ok" /\ outcome.val = "(p0 & p1)"
    /\ prop_counter = 4

\* C22: every property element of the parsed document, wherever it lies in the
\* tree, is among the entries the loop goes through, in either implementation;
\* so each of them that has an id and a translatable formula has its id in the
\* returned result.
C22_AllEntriesLocated ==
    /\ pc # "findall" => doc = tree
    /\ pc = "returned" =>
          \A i \in 1..Len(tree) :
              Translatable(tree[i]) =>
                 \E k \in 1..Len(extracted_props) : extracted_props[k].id = tree[i].id[1]

\* C27: in the batch run of extractMCC.py, once main has processed an input
\* file, the output file it wrote for it holds exactly the formulas extracted
\* from that input file, in order.
C27_OutputOfOneFile ==
    (pc = "main" /\ file_idx > 1 /\ input_files[file_idx - 1].name # ".DS_Store") =>
        LET file == input_files[file_idx - 1]
        IN /\ output_path(file.name) \in DOMAIN output_files
           /\ output_files[output_path(file.name)]
                 = [k \in 1..Len(extracted_props) |-> extracted_props[k].val]

\* C21: the strings produced for a document do not depend on the other
\* documents of the run nor on the interleaving of the worker tasks: two calls
\* of process_file that have ended on files of the same content have written
\* the same lines to their .ctl files and to their .txt files.
C21_SameDocumentSameStrings ==
    \A t, u \in 1..Len(tasks) :
        (Finished(t) /\ Finished(u) /\ tasks[t].doc = tasks[u].doc) =>
            (tasks[t].ctl = tasks[u].ctl /\ tasks[t].txt = tasks[u].txt)

\* In the batch run of extractMCC.py the properties returned for a file, and
\* the table of the parser that returned them, are those of a new parser run
\* on that file alone, whatever was processed before.
FreshParserPerFile ==
    (pc = "returned" /\ input_files # <<>>) =>
        LET r == extract_properties_from_file("mcc", FALSE, doc)
        IN /\ extracted_props = r.extracted
           /\ propositions_map = r.pm
           /\ prop_counter = r.counter

\* C23: at every step of run_tests the lines written to the temp file and given
\* to the tool are the current minimal set, the one the previous step read from
\* required_properties.csv, followed by the one property newly taken from the
\* other folder.
C23_MinimalPlusOne ==
    [][(pc = "props" /\ pc' \in {"props", "raised"}) =>
          analysis'.temp =
              [k \in 1..Len(analysis.minimal_properties) |->
                  analysis.minimal_properties[k].text]
              \o <<analysis.other_properties[analysis.i].text>>]_vars

\* C30: when test_one_model is over without timeout, every line the subprocess
\* wrote is in full_output, and the "Maximum resident set size" line of the
\* report is parsed into peak_memory.
C30_AllOutputRead ==
    (pc = "done" /\ ~monitor.timed_out) =>
        /\ monitor.full_output = monitor.output
        /\ monitor.peak_memory = <<1234>>

====
